---------------------------- MODULE Spec2Model ----------------------------
(***************************************************************************)
(* Semantic Scholar graph API client (src/search.py): the retrying HTTP    *)
(* request helper make_request_with_retry and the endpoint adapters built  *)
(* on it.                                                                  *)
(*                                                                         *)
(* The specifications share the model of the helper:                       *)
(*   Spec            one direct invocation of make_request_with_retry at   *)
(*                   a time, the upstream's answers to it recorded;        *)
(*   FairSpec        Spec, with every HTTP call and every sleep ending;    *)
(*   SpecConcurrent  direct invocations on worker threads, interleaved;    *)
(*   SpecAdapters    one adapter call at a time, from building the         *)
(*                   request to the projected result.                      *)
(***************************************************************************)
EXTENDS Integers, Sequences, FiniteSets, TLC

VARIABLES calls, hist, ad

vars == <<calls, hist, ad>>

-----------------------------------------------------------------------------
(* Bounds of the model *)

\* largest retry budget passed to a direct invocation running alone
MaxRetries == 3

\* number of invocations that may run interleaved
NumCalls == 2

-----------------------------------------------------------------------------
(* JSON values: every value is a record [t, v] with t its type tag *)

JNull == [t |-> "null", v |-> <<>>]

JStr(s) == [t |-> "str", v |-> s]

JNum(n) == [t |-> "num", v |-> n]

JList(s) == [t |-> "list", v |-> s]

JBool(b) == [t |-> "bool", v |-> b]

JObj(f) == [t |-> "obj", v |-> f]

EmptyList == JList(<<>>)

EmptyObj == JObj(<<>>)

\* a 200 response whose body is not JSON
Garbage == [t |-> "garbage", v |-> <<>>]

-----------------------------------------------------------------------------
(* make_request_with_retry *)

\* the exceptions make_request_with_retry can end with
NoError == [class |-> "none", exc |-> "none", code |-> 0]

Error(class, exc, code) == [class |-> class, exc |-> exc, code |-> code]

\* str.upper() on the method names used
Upper(method) ==
    CASE method = "get" -> "GET"
      [] method = "post" -> "POST"
      [] method = "put" -> "PUT"
      [] OTHER -> method

RECURSIVE Pow2(_)
Pow2(n) == IF n <= 0 THEN 1 ELSE 2 * Pow2(n - 1)

\* mutant: the delay grows linearly with the attempt
Delay_Linear(base_delay, attempt) == base_delay * (attempt + 1)

\* delay = base_delay * (2 ** attempt)
Delay(base_delay, attempt) == base_delay * Pow2(attempt)

\* raise <error>: the invocation ends with the exception
Raise(ex, err) == [ex EXCEPT !.pc = "raised", !.err = err]

\* the for loop takes its next value, or is exhausted and falls to the
\* raise after the loop
NextIteration(ex) ==
    IF ex.attempt + 1 < ex.max_retries + 1
    THEN [ex EXCEPT !.pc = "request", !.attempt = ex.attempt + 1]
    ELSE Raise(ex, Error("InternalRetryLogicError", "Exception", 0))

\* time.sleep(delay); continue
Backoff(ex) ==
    [ex EXCEPT !.pc = "sleeping",
               !.sleeps = Append(ex.sleeps, Delay(ex.base_delay, ex.attempt))]

\* mutant: the last allowed attempt is retried too
OnRateLimit_OffByOne(ex) ==
    IF ex.attempt <= ex.max_retries
    THEN Backoff(ex)
    ELSE Raise(ex, Error("RateLimitExceeded", "Exception", 0))

\* elif response.status_code == 429
OnRateLimit(ex) ==
    IF ex.attempt < ex.max_retries
    THEN Backoff(ex)
    ELSE Raise(ex, Error("RateLimitExceeded", "Exception", 0))

\* mutant: the Timeout clause comes after the RequestException clause, which
\* then takes the timeouts
OnTimeout_AsRequestFailed(ex) ==
    IF ex.attempt < ex.max_retries
    THEN Backoff(ex)
    ELSE Raise(ex, Error("RequestFailed", "Timeout", 0))

\* except requests.exceptions.Timeout
OnTimeout(ex) ==
    IF ex.attempt < ex.max_retries
    THEN Backoff(ex)
    ELSE Raise(ex, Error("RequestTimeout", "Exception", 0))

\* mutant: the last allowed attempt is retried too
OnRequestException_OffByOne(ex, exc, code) ==
    IF ex.attempt <= ex.max_retries
    THEN Backoff(ex)
    ELSE Raise(ex, Error("RequestFailed", exc, code))

\* except requests.exceptions.RequestException as e
OnRequestException(ex, exc, code) ==
    IF ex.attempt < ex.max_retries
    THEN Backoff(ex)
    ELSE Raise(ex, Error("RequestFailed", exc, code))

\* response.raise_for_status() raises HTTPError for 4xx and 5xx
RaisesForStatus(code) == code >= 400 /\ code < 600

\* the request as requests.get / requests.post puts it on the wire
Wire(ex) ==
    IF Upper(ex.method) = "GET"
    THEN [method |-> "GET", url |-> ex.url, params |-> ex.params,
          json |-> JNull]
    ELSE [method |-> "POST", url |-> ex.url, params |-> ex.params,
          json |-> ex.json_data]

NoRequest == [method |-> "none", url |-> <<>>, params |-> <<>>, json |-> JNull]

\* the handling of a response: the if / elif / else on response.status_code.
\* On a body that is not JSON, response.json() raises JSONDecodeError: a
\* RequestException under requests 2.27 and later, a plain ValueError before;
\* o.decode says which the installed requests raises.
HandleResponse(ex, o) ==
    IF o.code = 200
    THEN IF o.body.t = "garbage"
         THEN IF o.decode = "RequestException"
              THEN OnRequestException(ex, "JSONDecodeError", 0)
              ELSE Raise(ex, Error("JSONDecodeError", "ValueError", 0))
         ELSE [ex EXCEPT !.pc = "returned", !.ret = o.body]
    ELSE IF o.code = 429
    THEN OnRateLimit(ex)
    ELSE IF RaisesForStatus(o.code)
    THEN OnRequestException(ex, "HTTPError", o.code)
    ELSE NextIteration(ex)

\* one HTTP call and what the try block makes of its outcome
HandleOutcome(ex, o) ==
    CASE o.kind = "response" -> HandleResponse(ex, o)
      [] o.kind = "timeout" -> OnTimeout(ex)
      [] o.kind = "failure" -> OnRequestException(ex, "ConnectionError", 0)

SupportedMethod(method) == Upper(method) \in {"GET", "POST"}

\* one pass through the body of the for loop, the upstream answering o
LoopBody(ex, o) ==
    IF ~SupportedMethod(ex.method)
    THEN Raise(ex, Error("ValueError", "ValueError", 0))
    ELSE HandleOutcome([ex EXCEPT !.nreq = ex.nreq + 1, !.sent = Wire(ex)], o)

\* time.sleep returns and continue takes the loop to its next attempt
AfterSleep(ex) == [ex EXCEPT !.pc = "request", !.attempt = ex.attempt + 1]

\* the invocation on entry to the for loop
Invocation(url, params, json_data, method, max_retries, base_delay) ==
    LET ex == [url |-> url, params |-> params, json_data |-> json_data,
               method |-> method, max_retries |-> max_retries,
               base_delay |-> base_delay, attempt |-> 0, pc |-> "request",
               nreq |-> 0, sleeps |-> <<>>, sent |-> NoRequest,
               ret |-> JNull, err |-> NoError]
    IN  IF max_retries + 1 > 0
        THEN ex
        ELSE Raise(ex, Error("InternalRetryLogicError", "Exception", 0))

Finished(ex) == ex.pc \in {"returned", "raised"}

-----------------------------------------------------------------------------
(* The upstream service and the transport *)

\* HTTP status codes the upstream is made to answer with
StatusCodes == {200, 204, 403, 429, 500}

\* parsed bodies of the 200 responses given to direct invocations
PlainBodies == {JObj([data |-> JList(<<>>)]), JObj([total |-> JNum(1)])}

Response(code, body) ==
    [kind |-> "response", code |-> code, body |-> body, decode |-> "none"]

NotJSON(decode) ==
    [kind |-> "response", code |-> 200, body |-> Garbage, decode |-> decode]

Timeout == [kind |-> "timeout", code |-> 0, body |-> JNull, decode |-> "none"]

Failure == [kind |-> "failure", code |-> 0, body |-> JNull, decode |-> "none"]

OutcomesWith(bodies) ==
    {Response(200, b) : b \in bodies}
        \cup {NotJSON(d) : d \in {"RequestException", "ValueError"}}
        \cup {Response(c, JNull) : c \in StatusCodes \ {200}}
        \cup {Timeout, Failure}

Outcomes == OutcomesWith(PlainBodies)

-----------------------------------------------------------------------------
(* Direct invocations of make_request_with_retry *)

Slots == 1..NumCalls

Idle == [pc |-> "idle"]

Methods == {"GET", "post", "PUT"}

BaseDelays == {1, 3}

\* arguments of the invocations that run alone
SoloArgs == [method : Methods, r : -1..MaxRetries, base : BaseDelays]

\* arguments of the interleaved invocations
ConcArgs == {[method |-> "GET", r |-> 0, base |-> 1],
             [method |-> "GET", r |-> 1, base |-> 3]}

\* mutant: the attempt counter is a module-level variable, which a pass
\* through the loop of one invocation sets for all that are running
StepCall_SharedAttempt(cs, c, o) ==
    LET e == LoopBody(cs[c], o)
    IN  [d \in DOMAIN cs |->
            IF d = c THEN e
            ELSE IF cs[d].pc \in {"request", "sleeping"}
            THEN [cs[d] EXCEPT !.attempt = e.attempt]
            ELSE cs[d]]

\* the loop variables (attempt, response, delay) are locals of the invocation:
\* a pass through the loop changes the state of its own invocation only
StepCall(cs, c, o) == [cs EXCEPT ![c] = LoopBody(cs[c], o)]

InvokeWith(c, args) ==
    /\ calls[c].pc = "idle"
    /\ \E a \in args :
          calls' = [calls EXCEPT ![c] =
                      Invocation(<<"/paper/search">>, [query |-> "q"],
                                 JObj([ids |-> JList(<<>>)]),
                                 a.method, a.r, a.base)]
    /\ hist' = [hist EXCEPT ![c] = <<>>]
    /\ UNCHANGED ad

\* a caller invokes make_request_with_retry, no other invocation running
Invoke(c) == InvokeWith(c, SoloArgs)

\* a worker thread invokes make_request_with_retry beside the others
InvokeConcurrent(c) == InvokeWith(c, ConcArgs)

Attempt(c) ==
    /\ calls[c].pc = "request"
    /\ \E o \in Outcomes :
          /\ calls' = StepCall(calls, c, o)
          /\ hist' = [hist EXCEPT ![c] =
                        IF SupportedMethod(calls[c].method)
                        THEN Append(hist[c], o) ELSE hist[c]]
    /\ UNCHANGED ad

Wake(c) ==
    /\ calls[c].pc = "sleeping"
    /\ calls' = [calls EXCEPT ![c] = AfterSleep(calls[c])]
    /\ UNCHANGED <<hist, ad>>

\* the caller takes the result; the slot is free for the next invocation
Collect(c) ==
    /\ Finished(calls[c])
    /\ calls' = [calls EXCEPT ![c] = Idle]
    /\ hist' = [hist EXCEPT ![c] = <<>>]
    /\ UNCHANGED ad

Init ==
    /\ calls = [c \in Slots |-> Idle]
    /\ hist = [c \in Slots |-> <<>>]
    /\ ad = Idle

\* one invocation at a time
Next == Invoke(1) \/ Attempt(1) \/ Wake(1) \/ Collect(1)

Spec == Init /\ [][Next]_vars

\* the HTTP call returns within its timeout and time.sleep returns
FairSpec == Spec /\ WF_vars(Attempt(1)) /\ WF_vars(Wake(1))

\* invocations on worker threads, interleaved in any order
NextConcurrent ==
    \E c \in Slots :
        InvokeConcurrent(c) \/ Attempt(c) \/ Wake(c) \/ Collect(c)

SpecConcurrent == Init /\ [][NextConcurrent]_vars

-----------------------------------------------------------------------------
(* Python on JSON values *)

\* an exception raised while a value was being computed
Raised == [t |-> "raise", v |-> <<>>]

IsRaised(x) == x.t = "raise"

\* x.get(k, d): AttributeError unless x is a dict
PyGet(x, k, d) ==
    IF x.t = "obj"
    THEN IF k \in DOMAIN x.v THEN x.v[k] ELSE d
    ELSE Raised

\* x.get(k), the default being None
Get(x, k) == PyGet(x, k, JNull)

\* bool(x)
Truthy(x) ==
    CASE x.t = "null" -> FALSE
      [] x.t = "bool" -> x.v
      [] x.t = "num" -> x.v # 0
      [] x.t = "str" -> x.v # ""
      [] x.t = "list" -> x.v # <<>>
      [] x.t = "obj" -> DOMAIN x.v # {}
      [] OTHER -> FALSE

RECURSIVE KeySeq(_)
KeySeq(S) ==
    IF S = {} THEN <<>>
    ELSE LET k == CHOOSE k \in S : TRUE IN <<JStr(k)>> \o KeySeq(S \ {k})

\* `for item in x` raises TypeError for None, numbers and booleans
Iterable(x) == x.t \in {"list", "obj", "str"}

\* the values `for item in x` runs through: the items of a list, the keys of
\* a dict, the characters of a string (one string stands for them: each is a
\* str)
Iterate(x) ==
    CASE x.t = "list" -> x.v
      [] x.t = "obj" -> KeySeq(DOMAIN x.v)
      [] x.t = "str" -> IF x.v = "" THEN <<>> ELSE <<JStr(x.v)>>

\* x[0]
\* mutant: the last item is taken for the first
First_LastItem(x) ==
    CASE x.t = "list" /\ x.v # <<>> -> x.v[Len(x.v)]
      [] x.t = "str" /\ x.v # "" -> JStr(x.v)
      [] OTHER -> Raised

First(x) ==
    CASE x.t = "list" /\ x.v # <<>> -> x.v[1]
      [] x.t = "str" /\ x.v # "" -> JStr(x.v)
      [] OTHER -> Raised

\* a dict display {k: f[k], ...}: raises when the evaluation of a value does
Dict(f) == IF \E k \in DOMAIN f : IsRaised(f[k]) THEN Raised ELSE JObj(f)

\* the items a comprehension over x runs through
Items(x) == IF Iterable(x) THEN Iterate(x) ELSE <<>>

\* the list a comprehension over x builds, out being what its expression
\* gives for each item: raises when x is not iterable or an item raised
ListOrRaise(x, out) ==
    IF ~Iterable(x) \/ \E i \in 1..Len(out) : IsRaised(out[i])
    THEN Raised ELSE JList(out)

\* {k: x.get(k) for the keys named}
Fields(x, keys) == [k \in keys |-> Get(x, k)]

\* s[:n]
Prefix(s, n) == SubSeq(s, 1, IF Len(s) < n THEN Len(s) ELSE n)

\* min(a, b)
PyMin(a, b) == IF a < b THEN a ELSE b

-----------------------------------------------------------------------------
(* Endpoint adapters: the request each builds *)

PaperFields ==
    "paperId,title,abstract,year,authors,url,venue,publicationTypes,citationCount"

PaperDetailFields ==
    "paperId,title,abstract,year,authors,url,venue,publicationTypes,citationCount,referenceCount,influentialCitationCount,fieldsOfStudy,publicationDate"

AuthorFields == "authorId,name,url,affiliations,paperCount,citationCount,hIndex"

CitationFields == "contexts,isInfluential,title,authors,year,venue"

SnippetFields ==
    "snippet.text,snippet.snippetKind,snippet.section,snippet.snippetOffset"

Request(method, url, params, json_data) ==
    [method |-> method, url |-> url, params |-> params, json_data |-> json_data]

\* mutant: the limit is sent as given
Build_search_papers_Unclamped(a) ==
    Request("GET", <<"/paper/search">>,
            [query |-> a.query, limit |-> a.limit, fields |-> PaperFields],
            JNull)

Build_search_papers(a) ==
    Request("GET", <<"/paper/search">>,
            [query |-> a.query, limit |-> PyMin(a.limit, 100),
             fields |-> PaperFields], JNull)

Build_get_paper_details(a) ==
    Request("GET", <<"/paper/", a.paper_id>>,
            [fields |-> PaperDetailFields], JNull)

Build_get_author_details(a) ==
    Request("GET", <<"/author/", a.author_id>>,
            [fields |-> AuthorFields], JNull)

Build_get_paper_citations(a) ==
    Request("GET", <<"/paper/", a.paper_id, "/citations">>,
            [limit |-> PyMin(a.limit, 100), fields |-> CitationFields], JNull)

Build_get_paper_references(a) ==
    Request("GET", <<"/paper/", a.paper_id, "/references">>,
            [limit |-> PyMin(a.limit, 100), fields |-> CitationFields], JNull)

Build_search_authors(a) ==
    Request("GET", <<"/author/search">>,
            [query |-> a.query, limit |-> PyMin(a.limit, 100),
             fields |-> AuthorFields], JNull)

Build_search_paper_match(a) ==
    Request("GET", <<"/paper/search/match">>,
            [query |-> a.query, fields |-> PaperFields], JNull)

Build_get_paper_autocomplete(a) ==
    Request("GET", <<"/paper/autocomplete">>,
            [query |-> Prefix(a.query, 100)], JNull)

\* mutant: the last 500 ids are kept, paper_ids[-500:]
TruncatePaperIds_Last(paper_ids) ==
    IF Len(paper_ids) > 500
    THEN SubSeq(paper_ids, Len(paper_ids) - 499, Len(paper_ids))
    ELSE paper_ids

\* if len(paper_ids) > 500: paper_ids = paper_ids[:500]
TruncatePaperIds(paper_ids) ==
    IF Len(paper_ids) > 500 THEN Prefix(paper_ids, 500) ELSE paper_ids

Build_get_papers_batch(a) ==
    Request("POST", <<"/paper/batch">>, [fields |-> PaperDetailFields],
            JObj([ids |-> JList(TruncatePaperIds(a.ids))]))

\* if len(author_ids) > 1000: author_ids = author_ids[:1000]
TruncateAuthorIds(author_ids) ==
    IF Len(author_ids) > 1000 THEN Prefix(author_ids, 1000) ELSE author_ids

Build_get_authors_batch(a) ==
    Request("POST", <<"/author/batch">>, [fields |-> AuthorFields],
            JObj([ids |-> JList(TruncateAuthorIds(a.ids))]))

Build_search_snippets(a) ==
    Request("GET", <<"/snippet/search">>,
            [query |-> a.query, limit |-> PyMin(a.limit, 1000),
             fields |-> SnippetFields], JNull)

Build(op, a) ==
    CASE op = "search_papers" -> Build_search_papers(a)
      [] op = "get_paper_details" -> Build_get_paper_details(a)
      [] op = "get_author_details" -> Build_get_author_details(a)
      [] op = "get_paper_citations" -> Build_get_paper_citations(a)
      [] op = "get_paper_references" -> Build_get_paper_references(a)
      [] op = "search_authors" -> Build_search_authors(a)
      [] op = "search_paper_match" -> Build_search_paper_match(a)
      [] op = "get_paper_autocomplete" -> Build_get_paper_autocomplete(a)
      [] op = "get_papers_batch" -> Build_get_papers_batch(a)
      [] op = "get_authors_batch" -> Build_get_authors_batch(a)
      [] op = "search_snippets" -> Build_search_snippets(a)

-----------------------------------------------------------------------------
(* Endpoint adapters: the projection of the response *)

\* {"name": author.get("name"), "authorId": author.get("authorId")}
ProjectAuthorRef(author) == Dict(Fields(author, {"name", "authorId"}))

\* [... for author in paper.get("authors", [])]
AuthorsOf(paper) ==
    LET x == PyGet(paper, "authors", EmptyList)
        items == Items(x)
    IN  ListOrRaise(x, [i \in 1..Len(items) |-> ProjectAuthorRef(items[i])])

PaperKeys ==
    {"paperId", "title", "abstract", "year", "url", "venue",
     "publicationTypes", "citationCount"}

PaperDetailKeys ==
    PaperKeys \cup {"referenceCount", "influentialCitationCount",
                    "fieldsOfStudy", "publicationDate"}

AuthorKeys ==
    {"authorId", "name", "url", "affiliations", "paperCount",
     "citationCount", "hIndex"}

ProjectPaper(paper) ==
    Dict(("authors" :> AuthorsOf(paper)) @@ Fields(paper, PaperKeys))

ProjectPaperDetail(paper) ==
    Dict(("authors" :> AuthorsOf(paper)) @@ Fields(paper, PaperDetailKeys))

ProjectAuthor(author) == Dict(Fields(author, AuthorKeys))

\* the nested citingPaper / citedPaper of a citation or reference
ProjectLinkedPaper(link, key) ==
    LET paper == PyGet(link, key, EmptyObj)
    IN  Dict(("authors" :> AuthorsOf(paper))
                @@ Fields(paper, {"paperId", "title", "year", "venue"}))

\* mutant: contexts read without the default
ProjectLink_NullContexts(link, key) ==
    Dict((key :> ProjectLinkedPaper(link, key))
            @@ [contexts |-> Get(link, "contexts"),
                isInfluential |-> Get(link, "isInfluential")])

ProjectLink(link, key) ==
    Dict((key :> ProjectLinkedPaper(link, key))
            @@ [contexts |-> PyGet(link, "contexts", EmptyList),
                isInfluential |-> Get(link, "isInfluential")])

ProjectCitation(citation) == ProjectLink(citation, "citingPaper")

ProjectReference(reference) == ProjectLink(reference, "citedPaper")

ProjectMatch(match) == Dict(Fields(match, {"id", "title", "authorsYear"}))

ProjectSnippet(item) ==
    LET snippet == PyGet(item, "snippet", EmptyObj)
        paper == PyGet(item, "paper", EmptyObj)
    IN  Dict([score |-> Get(item, "score"),
              snippet |-> Dict(Fields(snippet, {"text", "snippetKind",
                                                "section", "snippetOffset"})),
              paper |-> Dict([corpusId |-> Get(paper, "corpusId"),
                              title |-> Get(paper, "title"),
                              authors |-> PyGet(paper, "authors", EmptyList)])])

Project_search_papers(response_data) ==
    LET x == PyGet(response_data, "data", EmptyList)
        items == Items(x)
    IN  ListOrRaise(x, [i \in 1..Len(items) |-> ProjectPaper(items[i])])

Project_get_paper_details(response_data) == ProjectPaperDetail(response_data)

Project_get_author_details(response_data) == ProjectAuthor(response_data)

Project_get_paper_citations(response_data) ==
    LET x == PyGet(response_data, "data", EmptyList)
        items == Items(x)
    IN  ListOrRaise(x, [i \in 1..Len(items) |-> ProjectCitation(items[i])])

Project_get_paper_references(response_data) ==
    LET x == PyGet(response_data, "data", EmptyList)
        items == Items(x)
    IN  ListOrRaise(x, [i \in 1..Len(items) |-> ProjectReference(items[i])])

Project_search_authors(response_data) ==
    LET x == PyGet(response_data, "data", EmptyList)
        items == Items(x)
    IN  ListOrRaise(x, [i \in 1..Len(items) |-> ProjectAuthor(items[i])])

NoMatch == JObj([error |-> JStr("No matching paper found")])

Project_search_paper_match(response_data) ==
    LET data == Get(response_data, "data")
    IN  IF IsRaised(data) THEN Raised
        ELSE IF Truthy(data)
        THEN LET paper == First(data)
             IN  Dict(("matchScore" :> Get(paper, "matchScore"))
                        @@ ("authors" :> AuthorsOf(paper))
                        @@ Fields(paper, PaperKeys))
        ELSE NoMatch

Project_get_paper_autocomplete(response_data) ==
    LET x == PyGet(response_data, "matches", EmptyList)
        items == Items(x)
    IN  ListOrRaise(x, [i \in 1..Len(items) |-> ProjectMatch(items[i])])

Project_get_papers_batch(response_data) ==
    IF response_data.t = "list"
    THEN LET items == SelectSeq(Items(response_data), Truthy)
         IN  ListOrRaise(response_data,
                         [i \in 1..Len(items) |-> ProjectPaperDetail(items[i])])
    ELSE EmptyList

Project_get_authors_batch(response_data) ==
    IF response_data.t = "list"
    THEN LET items == SelectSeq(Items(response_data), Truthy)
         IN  ListOrRaise(response_data,
                         [i \in 1..Len(items) |-> ProjectAuthor(items[i])])
    ELSE EmptyList

Project_search_snippets(response_data) ==
    LET x == PyGet(response_data, "data", EmptyList)
        items == Items(x)
    IN  ListOrRaise(x, [i \in 1..Len(items) |-> ProjectSnippet(items[i])])

Project(op, response_data) ==
    CASE op = "search_papers" -> Project_search_papers(response_data)
      [] op = "get_paper_details" -> Project_get_paper_details(response_data)
      [] op = "get_author_details" -> Project_get_author_details(response_data)
      [] op = "get_paper_citations" ->
            Project_get_paper_citations(response_data)
      [] op = "get_paper_references" ->
            Project_get_paper_references(response_data)
      [] op = "search_authors" -> Project_search_authors(response_data)
      [] op = "search_paper_match" ->
            Project_search_paper_match(response_data)
      [] op = "get_paper_autocomplete" ->
            Project_get_paper_autocomplete(response_data)
      [] op = "get_papers_batch" -> Project_get_papers_batch(response_data)
      [] op = "get_authors_batch" -> Project_get_authors_batch(response_data)
      [] op = "search_snippets" -> Project_search_snippets(response_data)

\* what the except Exception clause of the adapter returns
OnException(op) ==
    CASE op = "get_paper_details" ->
            JObj([error |-> JStr("Failed to get paper details")])
      [] op = "get_author_details" ->
            JObj([error |-> JStr("Failed to get author details")])
      [] op = "search_paper_match" ->
            JObj([error |-> JStr("Failed to find paper match")])
      [] OTHER -> EmptyList

\* mutant: no except clause, the exception leaves the adapter
TryExcept_NoExcept(op, ex) ==
    IF ex.pc = "raised" THEN Raised ELSE Project(op, ex.ret)

\* try: make_request_with_retry, then the projection; except Exception
TryExcept(op, ex) ==
    IF ex.pc = "raised" THEN OnException(op)
    ELSE LET projected == Project(op, ex.ret)
         IN  IF IsRaised(projected) THEN OnException(op) ELSE projected

\* mutant: a fetch that gave nothing empties the other list too
CitationsAndReferences_AllOrNothing(citations, references) ==
    IF citations.v = <<>> \/ references.v = <<>>
    THEN JObj([citations |-> EmptyList, references |-> EmptyList])
    ELSE JObj([citations |-> citations, references |-> references])

\* the object get_citations_and_references returns
CitationsAndReferences(citations, references) ==
    JObj([citations |-> citations, references |-> references])

-----------------------------------------------------------------------------
(* Responses the upstream gives to the adapters *)

AuthorAda == JObj([name |-> JStr("Ada"), authorId |-> JStr("a1")])

AuthorNoId == JObj([name |-> JStr("Bob")])

PaperFull ==
    JObj([paperId |-> JStr("p1"), title |-> JStr("Graphs"),
          abstract |-> JStr("On graphs"), year |-> JNum(2020),
          authors |-> JList(<<AuthorAda, AuthorNoId>>),
          url |-> JStr("http://s2/p1"), venue |-> JStr("VLDB"),
          publicationTypes |-> JList(<<JStr("Review")>>),
          citationCount |-> JNum(7), referenceCount |-> JNum(3),
          influentialCitationCount |-> JNum(1),
          fieldsOfStudy |-> JList(<<JStr("CS")>>),
          publicationDate |-> JStr("2020-01-01"), matchScore |-> JNum(99),
          corpusId |-> JNum(11)])

\* no venue, no authors, a null title
PaperSparse == JObj([paperId |-> JStr("p2"), title |-> JNull])

PaperNullAuthors == JObj([paperId |-> JStr("p3"), authors |-> JNull])

AuthorFull ==
    JObj([authorId |-> JStr("a1"), name |-> JStr("Ada"),
          url |-> JStr("http://s2/a1"),
          affiliations |-> JList(<<JStr("MIT")>>), paperCount |-> JNum(4),
          citationCount |-> JNum(9), hIndex |-> JNum(2),
          homepage |-> JStr("http://ada")])

AuthorSparse == JObj([authorId |-> JStr("a2"), hIndex |-> JNull])

CitationFull ==
    JObj([contexts |-> JList(<<JStr("as shown in")>>),
          isInfluential |-> JBool(TRUE), citingPaper |-> PaperFull])

\* no contexts, and a citing paper without authors
CitationBare == JObj([citingPaper |-> PaperSparse])

CitationNullPaper == JObj([isInfluential |-> JBool(FALSE), citingPaper |-> JNull])

ReferenceFull ==
    JObj([contexts |-> JList(<<JStr("see")>>),
          isInfluential |-> JBool(FALSE), citedPaper |-> PaperFull])

ReferenceBare == JObj([isInfluential |-> JNull])

MatchFull ==
    JObj([id |-> JStr("p1"), title |-> JStr("Graphs"),
          authorsYear |-> JStr("Ada, 2020")])

SnippetFull ==
    JObj([score |-> JNum(5),
          snippet |-> JObj([text |-> JStr("a graph is"),
                            snippetKind |-> JStr("body"),
                            section |-> JStr("Intro"),
                            snippetOffset |-> JNum(12)]),
          paper |-> PaperFull])

SnippetBare == JObj([score |-> JNum(1)])

SnippetNullPaper == JObj([snippet |-> EmptyObj, paper |-> JNull])

Data(items) == JObj([data |-> JList(items)])

\* parsed bodies of the 200 responses given to the adapters: the shapes the
\* endpoints answer with, and shapes none of them should
AdapterBodies ==
    {Data(<<PaperFull, PaperSparse>>), Data(<<PaperSparse, PaperFull, PaperFull>>),
     Data(<<>>), EmptyObj, JObj([data |-> JNull]), JObj([data |-> JStr("oops")]),
     JObj([data |-> JStr("")]), Data(<<JNull>>), Data(<<PaperNullAuthors>>),
     Data(<<AuthorFull, AuthorSparse>>),
     Data(<<CitationFull, CitationBare>>), Data(<<CitationNullPaper>>),
     Data(<<ReferenceFull, ReferenceBare>>),
     Data(<<SnippetFull, SnippetBare>>), Data(<<SnippetNullPaper>>),
     JObj([matches |-> JList(<<MatchFull, EmptyObj>>)]),
     JObj([matches |-> JNum(3)]),
     PaperFull, PaperSparse, PaperNullAuthors, AuthorFull, AuthorSparse,
     JList(<<PaperFull, JNull, PaperSparse>>), JList(<<JNull, AuthorFull>>),
     JList(<<>>), JList(<<JStr("oops")>>), JList(<<EmptyObj, AuthorSparse>>),
     JNull, JStr("oops"), JNum(3)}

-----------------------------------------------------------------------------
(* Calls of the endpoint adapters *)

\* defaults of make_request_with_retry, which every adapter leaves in place
DefaultMaxRetries == 5

DefaultBaseDelay == 1

\* default of the limit parameter of get_paper_citations / get_paper_references
DefaultLimit == 10

Queries == {"graph"}

PaperIds == {"p1"}

AuthorIds == {"a1"}

Limits == {-1, 0, 10, 100, 101, 500, 1000, 1001}

\* a list of n distinct ids (or characters), each standing for itself
Distinct(n) == [i \in 1..n |-> i]

IdLists == {Distinct(n) : n \in {0, 3, 500, 501, 1000, 1001}}

QueryTexts == {Distinct(n) : n \in {5, 100, 101}}

\* how the first fetch of get_citations_and_references ended: returned with
\* the body ret or raised err, and what get_paper_citations made of it
Fetched(e, result) ==
    [pc |-> e.pc, ret |-> e.ret, err |-> e.err, result |-> result]

NoFetch == [pc |-> "none", ret |-> JNull, err |-> NoError, result |-> JNull]

\* the adapter op is entered with arguments a: it builds its request and
\* calls make_request_with_retry with the default budget and delay
Enter(op, a, outer) ==
    LET req == Build(op, a)
    IN  [pc |-> "executing", op |-> op, arg |-> a, outer |-> outer,
         first |-> NoFetch, result |-> JNull,
         ex |-> Invocation(req.url, req.params, req.json_data, req.method,
                           DefaultMaxRetries, DefaultBaseDelay)]

\* make_request_with_retry has ended as e: the adapter returns, and
\* get_citations_and_references goes on to its second fetch or returns too
Leave(f, e) ==
    LET res == TryExcept(f.op, e)
    IN  IF f.outer = "get_citations_and_references"
        THEN IF f.op = "get_paper_citations"
             THEN [Enter("get_paper_references", f.arg, f.outer)
                      EXCEPT !.first = Fetched(e, res)]
             ELSE [f EXCEPT !.pc = "returned", !.ex = e,
                            !.result = CitationsAndReferences(f.first.result,
                                                              res)]
        ELSE [f EXCEPT !.pc = "returned", !.ex = e, !.result = res]

Call(op, args) ==
    /\ ad.pc = "idle"
    /\ \E a \in args : ad' = Enter(op, a, "none")
    /\ UNCHANGED <<calls, hist>>

Call_search_papers == Call("search_papers", [query : Queries, limit : Limits])

Call_get_paper_details == Call("get_paper_details", [paper_id : PaperIds])

Call_get_author_details == Call("get_author_details", [author_id : AuthorIds])

Call_get_paper_citations ==
    Call("get_paper_citations", [paper_id : PaperIds, limit : Limits])

Call_get_paper_references ==
    Call("get_paper_references", [paper_id : PaperIds, limit : Limits])

Call_get_citations_and_references ==
    /\ ad.pc = "idle"
    /\ \E id \in PaperIds :
          ad' = Enter("get_paper_citations",
                      [paper_id |-> id, limit |-> DefaultLimit],
                      "get_citations_and_references")
    /\ UNCHANGED <<calls, hist>>

Call_search_authors == Call("search_authors", [query : Queries, limit : Limits])

Call_search_paper_match == Call("search_paper_match", [query : Queries])

Call_get_paper_autocomplete ==
    Call("get_paper_autocomplete", [query : QueryTexts])

Call_get_papers_batch == Call("get_papers_batch", [ids : IdLists])

Call_get_authors_batch == Call("get_authors_batch", [ids : IdLists])

Call_search_snippets == Call("search_snippets", [query : Queries, limit : Limits])

\* one pass through the loop of the adapter's make_request_with_retry
AdapterAttempt ==
    /\ ad.pc = "executing"
    /\ ad.ex.pc = "request"
    /\ \E o \in OutcomesWith(AdapterBodies) :
          LET e == LoopBody(ad.ex, o)
          IN  ad' = IF Finished(e) THEN Leave(ad, e) ELSE [ad EXCEPT !.ex = e]
    /\ UNCHANGED <<calls, hist>>

AdapterWake ==
    /\ ad.pc = "executing"
    /\ ad.ex.pc = "sleeping"
    /\ ad' = [ad EXCEPT !.ex = AfterSleep(ad.ex)]
    /\ UNCHANGED <<calls, hist>>

\* the caller takes the result
AdapterReturn ==
    /\ ad.pc = "returned"
    /\ ad' = Idle
    /\ UNCHANGED <<calls, hist>>

NextAdapters ==
    \/ Call_search_papers
    \/ Call_get_paper_details
    \/ Call_get_author_details
    \/ Call_get_paper_citations
    \/ Call_get_paper_references
    \/ Call_get_citations_and_references
    \/ Call_search_authors
    \/ Call_search_paper_match
    \/ Call_get_paper_autocomplete
    \/ Call_get_papers_batch
    \/ Call_get_authors_batch
    \/ Call_search_snippets
    \/ AdapterAttempt
    \/ AdapterWake
    \/ AdapterReturn

SpecAdapters == Init /\ [][NextAdapters]_vars

-----------------------------------------------------------------------------
(* Properties of make_request_with_retry *)

Last(h) == h[Len(h)]

Is429(o) == o.kind = "response" /\ o.code = 429

IsParsed200(o) ==
    o.kind = "response" /\ o.code = 200 /\ o.body.t # "garbage"

IsRetryable(o) == Is429(o) \/ o.kind = "timeout" \/ o.kind = "failure"

All(h, P(_)) == \A i \in 1..Len(h) : P(h[i])

\* an invocation with a supported method and a retry budget r >= 0
Proper(ex) ==
    ex.pc # "idle" /\ SupportedMethod(ex.method) /\ ex.max_retries >= 0

\* base_delay * 2^0 .. base_delay * 2^(k-1)
ExpectedSleeps(base_delay, k) == [i \in 1..k |-> base_delay * 2^(i - 1)]

Min(a, b) == IF a < b THEN a ELSE b

\* C1: a response with a status other than 200 and 429 ends the invocation
\* on that attempt with an HttpError, without a sleep or a further request.
C1_FailsImmediately ==
    LET ex == calls[1]
        h == hist[1]
    IN  (Proper(ex) /\ h # <<>> /\ Last(h).kind = "response"
            /\ Last(h).code \notin {200, 429})
        => (ex.pc = "raised" /\ ex.err.class = "HttpError")

\* C2: against an upstream that answers 429 to every request, an invocation
\* with budget r never returns, issues one request per answer and at most
\* r+1, and is finished exactly when r+1 requests were made: then it has
\* slept r times and ends with RateLimitExceeded.
C2_Always429 ==
    LET ex == calls[1]
        h == hist[1]
        r == ex.max_retries
    IN  (Proper(ex) /\ All(h, Is429))
        => /\ ex.pc # "returned"
           /\ ex.nreq = Len(h)
           /\ ex.nreq <= r + 1
           /\ Finished(ex) <=> ex.nreq = r + 1
           /\ Finished(ex) =>
                 /\ ex.err.class = "RateLimitExceeded"
                 /\ Len(ex.sleeps) = r

C2_Witness ==
    /\ Proper(calls[1]) /\ Finished(calls[1])
    /\ calls[1].max_retries >= 2
    /\ Len(hist[1]) = calls[1].max_retries + 1
    /\ All(hist[1], Is429)

C4_RetryableExhaustion ==
    LET ex == calls[1]
        h == hist[1]
        r == ex.max_retries
    IN  (Proper(ex) /\ All(h, IsRetryable))
        => /\ ex.nreq = Len(h)
           /\ ex.sleeps = ExpectedSleeps(ex.base_delay, Min(Len(h), r))
           /\ Len(h) <= r => ex.pc \in {"request", "sleeping"}
           /\ Len(h) = r + 1 =>
                 /\ ex.pc = "raised"
                 /\ Is429(Last(h)) =>
                       ex.err = Error("RateLimitExceeded", "Exception", 0)
                 /\ Last(h).kind = "timeout" =>
                       ex.err = Error("RequestTimeout", "Exception", 0)
                 /\ Last(h).kind = "failure" =>
                       ex.err = Error("RequestFailed", "ConnectionError", 0)

C4_Witness ==
    /\ Proper(calls[1]) /\ calls[1].pc = "raised"
    /\ calls[1].max_retries = 2
    /\ hist[1] = <<Failure, Response(429, JNull), Timeout>>
    /\ calls[1].err.class = "RequestTimeout"

\* C5: an invocation with budget r >= 0 never makes more than r+1 requests
\* nor sleeps more than r times, and once started it ends, returned or
\* raised, whatever the upstream answers.
C5_Terminates ==
    /\ [](Proper(calls[1]) =>
            /\ calls[1].nreq <= calls[1].max_retries + 1
            /\ Len(calls[1].sleeps) <= calls[1].max_retries
            /\ Finished(calls[1]) =>
                  (calls[1].pc = "returned") # (calls[1].err # NoError))
    /\ (calls[1].pc \in {"request", "sleeping"}) ~> Finished(calls[1])

C5_Witness ==
    /\ Proper(calls[1]) /\ calls[1].pc = "raised"
    /\ calls[1].max_retries = 3
    /\ calls[1].nreq = 4
    /\ Len(calls[1].sleeps) = 3
    /\ \E i \in 1..Len(hist[1]) : hist[1][i].code = 500

\* what an invocation does on its own, from its arguments and the answers
\* to its own requests
RECURSIVE Alone(_, _)
Alone(ex, h) ==
    IF h = <<>> \/ Finished(ex)
    THEN ex
    ELSE LET e == LoopBody(ex, Head(h))
         IN  Alone(IF e.pc = "sleeping" /\ Len(h) > 1 THEN AfterSleep(e) ELSE e,
                   Tail(h))

\* C8: every invocation starts at attempt 0 with no request made and no
\* sleep taken, and at each moment its requests, sleeps and outcome are
\* those it would have running alone with the same arguments and the same
\* answers to its own requests, whatever the other invocations do.
C8_PrivateRetryState ==
    \A c \in Slots :
        calls[c].pc # "idle" =>
            LET ex == calls[c]
                alone == Alone(Invocation(ex.url, ex.params, ex.json_data,
                                          ex.method, ex.max_retries,
                                          ex.base_delay), hist[c])
            IN  /\ hist[c] = <<>> =>
                      ex.attempt = 0 /\ ex.nreq = 0 /\ ex.sleeps = <<>>
                /\ ex.nreq = alone.nreq
                /\ ex.sleeps = alone.sleeps
                /\ ex.attempt \in {alone.attempt, alone.attempt + 1}
                /\ ex.attempt <= ex.max_retries
                /\ Finished(ex) => ex = alone

\* one invocation sleeps in backoff while another, with another budget,
\* has exhausted its own
C8_Witness ==
    \E c, d \in Slots :
        /\ calls[c].pc = "sleeping" /\ calls[c].max_retries = 1
        /\ calls[d].pc = "raised" /\ calls[d].max_retries = 0
        /\ calls[d].err.class = "RateLimitExceeded"

-----------------------------------------------------------------------------
(* Properties of the endpoint adapters *)

ListOps ==
    {"search_papers", "get_paper_citations", "get_paper_references",
     "search_authors", "get_paper_autocomplete", "get_papers_batch",
     "get_authors_batch", "search_snippets"}

ObjectOps == {"get_paper_details", "get_author_details", "search_paper_match"}

BatchOps == {"get_papers_batch", "get_authors_batch"}

IsEmptyList(x) == x.t = "list" /\ x.v = <<>>

IsErrorObject(x) == x.t = "obj" /\ DOMAIN x.v = {"error"}

\* C6: an adapter always returns a value of its declared kind, a list or an
\* object; and when make_request_with_retry raised, or the projection of
\* the response raises (as it does on every response that is not a JSON
\* object, the batch adapters apart), a list-returning adapter returns the
\* empty list and an object-returning adapter an object with the one key
\* "error".
C6_FailSoft ==
    (ad.pc = "returned" /\ ad.outer = "none")
    => LET e == ad.ex
           failed == \/ e.pc = "raised"
                     \/ e.pc = "returned" /\ IsRaised(Project(ad.op, e.ret))
                     \/ e.pc = "returned" /\ ad.op \notin BatchOps
                            /\ e.ret.t # "obj"
       IN  /\ ad.op \in ListOps => ad.result.t = "list"
           /\ ad.op \in ObjectOps => ad.result.t = "obj"
           /\ failed /\ ad.op \in ListOps => IsEmptyList(ad.result)
           /\ failed /\ ad.op \in ObjectOps => IsErrorObject(ad.result)

C6_Witness ==
    /\ ad.pc = "returned" /\ ad.outer = "none"
    /\ ad.op = "get_author_details"
    /\ ad.ex.pc = "raised" /\ ad.ex.err.class = "RequestTimeout"
    /\ ad.ex.nreq = 6
    /\ ad.result = JObj([error |-> JStr("Failed to get author details")])

\* what a fetch that ended as pc / ret gives its list
ListOf(op, pc, ret) ==
    IF pc = "raised" \/ IsRaised(Project(op, ret))
    THEN EmptyList ELSE Project(op, ret)

\* C7: get_citations_and_references returns an object with exactly the keys
\* citations and references, each the list its own fetch gives: the
\* projection of the fetched response, or the empty list when that fetch
\* failed, whatever became of the other.
C7_IndependentFaults ==
    (ad.pc = "returned" /\ ad.outer = "get_citations_and_references")
    => /\ ad.result.t = "obj"
       /\ DOMAIN ad.result.v = {"citations", "references"}
       /\ ad.result.v.citations =
             ListOf("get_paper_citations", ad.first.pc, ad.first.ret)
       /\ ad.result.v.references =
             ListOf("get_paper_references", ad.ex.pc, ad.ex.ret)

C7_Witness ==
    /\ ad.pc = "returned" /\ ad.outer = "get_citations_and_references"
    /\ ad.first.pc = "returned"
    /\ ad.first.ret = Data(<<CitationFull, CitationBare>>)
    /\ ad.ex.pc = "raised" /\ ad.ex.nreq = 6
    /\ ad.ex.sent.url = <<"/paper/", "p1", "/references">>
    /\ Len(ad.result.v.citations.v) = 2
    /\ ad.result.v.citations.v[1].v.citingPaper.v.title = JStr("Graphs")
    /\ ad.result.v.references = EmptyList

LimitOps ==
    {"search_papers", "get_paper_citations", "get_paper_references",
     "search_authors", "search_snippets"}

\* a request of the adapter's make_request_with_retry has gone out
Sent == ad.pc # "idle" /\ ad.ex.sent.method # "none"

\* C9: the limit sent upstream is at most 100 (1000 for search_snippets):
\* the cap when the argument is above the cap, the argument otherwise.
C9_LimitClamped ==
    (Sent /\ ad.op \in LimitOps)
    => LET cap == IF ad.op = "search_snippets" THEN 1000 ELSE 100
           sent == ad.ex.sent.params.limit
       IN  /\ sent <= cap
           /\ ad.arg.limit > cap => sent = cap
           /\ ad.arg.limit <= cap => sent = ad.arg.limit

C9_Witness ==
    /\ Sent /\ ad.op = "search_papers"
    /\ ad.arg.limit = 500
    /\ ad.ex.sent.params.limit = 100

\* C10: the ids sent in the POST body of a batch request are the first
\* min(len(ids), cap) ids of the argument, in the argument's order, the cap
\* being 500 for papers and 1000 for authors.
C10_IdsPrefix ==
    (Sent /\ ad.op \in BatchOps)
    => LET cap == IF ad.op = "get_papers_batch" THEN 500 ELSE 1000
           given == ad.arg.ids
           body == ad.ex.sent.json
       IN  /\ ad.ex.sent.method = "POST"
           /\ body.t = "obj" /\ DOMAIN body.v = {"ids"}
           /\ Len(body.v.ids.v) = Min(Len(given), cap)
           /\ \A i \in 1..Len(body.v.ids.v) : body.v.ids.v[i] = given[i]
           /\ Len(given) <= cap => body.v.ids.v = given

C10_Witness ==
    /\ Sent /\ ad.op = "get_papers_batch"
    /\ Len(ad.arg.ids) = 501
    /\ Len(ad.ex.sent.json.v.ids.v) = 500
    /\ ad.ex.sent.json.v.ids.v[500] = 500

-----------------------------------------------------------------------------
(* Properties of the projections *)

\* an adapter call has returned after a 200 response that was parsed
Projected(op) ==
    /\ ad.pc = "returned" /\ ad.outer = "none" /\ ad.op = op
    /\ ad.ex.pc = "returned"

IsObjectList(x) ==
    x.t = "list" /\ \A i \in 1..Len(x.v) : x.v[i].t = "obj"

NotNull(x) == x.t # "null"

\* the key a batch adapter's records are told apart by
IdKey(op) == IF op = "get_papers_batch" THEN "paperId" ELSE "authorId"

\* C11: of a batch response that is an array of objects and nulls, the
\* batch adapters return one projected object per entry that is not null,
\* in the order of the response; of a response that is no array, the empty
\* list.
C11_OnePerNonNull ==
    \A op \in BatchOps :
        Projected(op)
        => LET body == ad.ex.ret
               entries == SelectSeq(body.v, NotNull)
           IN  /\ body.t # "list" => IsEmptyList(ad.result)
               /\ (body.t = "list"
                     /\ \A i \in 1..Len(body.v) :
                           body.v[i].t \in {"null", "obj"})
                  => /\ ad.result.t = "list"
                     /\ Len(ad.result.v) = Len(entries)
                     /\ \A i \in 1..Len(entries) :
                           ad.result.v[i].v[IdKey(op)]
                              = Get(entries[i], IdKey(op))

\* C12: of a search response whose data holds N objects, search_papers
\* returns N objects in the same order, each with exactly the nine declared
\* keys, a scalar that is missing or null upstream being null in it,
\* whichever of the fields are present, missing or null.
C12_OnePerPaper ==
    (Projected("search_papers") /\ ad.ex.ret.t = "obj"
        /\ "data" \in DOMAIN ad.ex.ret.v /\ IsObjectList(ad.ex.ret.v.data))
    => LET papers == ad.ex.ret.v.data.v
       IN  /\ ad.result.t = "list"
           /\ Len(ad.result.v) = Len(papers)
           /\ \A i \in 1..Len(papers) :
                 /\ ad.result.v[i].t = "obj"
                 /\ DOMAIN ad.result.v[i].v = PaperKeys \cup {"authors"}
                 /\ \A k \in PaperKeys :
                       ad.result.v[i].v[k] = Get(papers[i], k)

\* a paper record the projection accepts: its authors missing or a list
\* of objects
WellFormedPaper(p) ==
    /\ p.t = "obj"
    /\ "authors" \in DOMAIN p.v => IsObjectList(p.v.authors)

\* the author references of a well-formed paper
AuthorRefs(p) ==
    IF "authors" \in DOMAIN p.v
    THEN JList([i \in 1..Len(p.v.authors.v) |->
                  JObj([name |-> Get(p.v.authors.v[i], "name"),
                        authorId |-> Get(p.v.authors.v[i], "authorId")])])
    ELSE EmptyList

\* C14: search_paper_match never raises: it returns an object. Of a
\* response whose data is missing or empty it returns the object
\* {"error": "No matching paper found"}; of one whose data is a non-empty
\* array it returns the projection of the first element alone, whatever
\* the later elements are.
C14_FirstMatchOrError ==
    (ad.pc = "returned" /\ ad.outer = "none" /\ ad.op = "search_paper_match")
    => /\ ad.result.t = "obj"
       /\ (ad.ex.pc = "returned" /\ ad.ex.ret.t = "obj")
          => LET body == ad.ex.ret.v
             IN  /\ "data" \notin DOMAIN body => ad.result = NoMatch
                 /\ "data" \in DOMAIN body /\ IsEmptyList(body.data)
                    => ad.result = NoMatch
                 /\ ("data" \in DOMAIN body /\ body.data.t = "list"
                       /\ body.data.v # <<>>
                       /\ WellFormedPaper(body.data.v[1]))
                    => LET paper == body.data.v[1]
                       IN  /\ DOMAIN ad.result.v
                                = PaperKeys \cup {"authors", "matchScore"}
                           /\ \A k \in PaperKeys \cup {"matchScore"} :
                                 ad.result.v[k] = Get(paper, k)
                           /\ ad.result.v.authors = AuthorRefs(paper)

\* a match is returned of a response whose later elements differ from the
\* first
C14_Witness ==
    /\ Projected("search_paper_match")
    /\ ad.ex.ret.t = "obj" /\ "data" \in DOMAIN ad.ex.ret.v
    /\ ad.ex.ret.v.data.t = "list" /\ Len(ad.ex.ret.v.data.v) >= 2
    /\ WellFormedPaper(ad.ex.ret.v.data.v[1])
    /\ Get(ad.ex.ret.v.data.v[2], "paperId")
          # Get(ad.ex.ret.v.data.v[1], "paperId")
    /\ ad.result.v.paperId = Get(ad.ex.ret.v.data.v[1], "paperId")

\* every key of keys that the record x lacks has the value d in out
Absent(x, out, keys, d) ==
    \A k \in keys : k \notin DOMAIN x.v => out.v[k] = d

\* the record nested under k, the empty one when there is none
Nested(x, k) == IF k \in DOMAIN x.v THEN x.v[k] ELSE EmptyObj

PaperAbsent(x, out, keys, d) ==
    Absent(x, out, keys, JNull) /\ Absent(x, out, {"authors"}, d)

LinkAbsent(x, out, key, d) ==
    /\ Absent(x, out, {"isInfluential"}, JNull)
    /\ Absent(x, out, {"contexts"}, d)
    /\ PaperAbsent(Nested(x, key), out.v[key],
                   {"paperId", "title", "year", "venue"}, d)

SnippetAbsent(x, out, d) ==
    /\ Absent(x, out, {"score"}, JNull)
    /\ Absent(Nested(x, "snippet"), out.v.snippet,
              {"text", "snippetKind", "section", "snippetOffset"}, JNull)
    /\ Absent(Nested(x, "paper"), out.v.paper, {"corpusId", "title"}, JNull)
    /\ Absent(Nested(x, "paper"), out.v.paper, {"authors"}, d)

\* what the fields that the upstream record x lacks are in its projection
\* out by the adapter op: the scalars null, the lists d
RecordAbsent(op, x, out, d) ==
    CASE op = "search_papers" -> PaperAbsent(x, out, PaperKeys, d)
      [] op = "search_paper_match" ->
            PaperAbsent(x, out, PaperKeys \cup {"matchScore"}, d)
      [] op \in {"get_paper_details", "get_papers_batch"} ->
            PaperAbsent(x, out, PaperDetailKeys, d)
      [] op \in {"get_author_details", "search_authors",
                 "get_authors_batch"} -> Absent(x, out, AuthorKeys, JNull)
      [] op = "get_paper_citations" -> LinkAbsent(x, out, "citingPaper", d)
      [] op = "get_paper_references" -> LinkAbsent(x, out, "citedPaper", d)
      [] op = "get_paper_autocomplete" ->
            Absent(x, out, {"id", "title", "authorsYear"}, JNull)
      [] op = "search_snippets" -> SnippetAbsent(x, out, d)

\* the upstream records that the result of op holds the projections of, in
\* the order of the result; none when the result is the degraded one
Records(op, body, result) ==
    LET key == IF op = "get_paper_autocomplete" THEN "matches" ELSE "data"
        listed == IF body.t = "obj" /\ key \in DOMAIN body.v
                     /\ body.v[key].t = "list"
                  THEN body.v[key].v ELSE <<>>
        records ==
            CASE op \in {"get_paper_details", "get_author_details"} ->
                    IF body.t = "obj" THEN <<body>> ELSE <<>>
              [] op = "search_paper_match" ->
                    IF listed = <<>> THEN <<>> ELSE <<listed[1]>>
              [] op \in BatchOps ->
                    IF body.t = "list" THEN SelectSeq(body.v, Truthy)
                    ELSE <<>>
              [] OTHER -> listed
    IN  IF op \in ObjectOps
        THEN IF IsErrorObject(result) THEN <<>> ELSE records
        ELSE IF Len(result.v) = Len(records) THEN records ELSE <<>>

\* the projection of the i-th of these records
Projection(op, result, i) == IF op \in ObjectOps THEN result ELSE result.v[i]

AdapterOps == ListOps \cup ObjectOps

MissingProjectsTo(d) ==
    \A op \in AdapterOps :
        Projected(op)
        => LET records == Records(op, ad.ex.ret, ad.result)
           IN  \A i \in 1..Len(records) :
                  RecordAbsent(op, records[i],
                               Projection(op, ad.result, i), d)

-----------------------------------------------------------------------------
(* Properties of the attempt loop *)

\* C15: an invocation with a supported method and a budget r >= 0 never
\* leaves the loop without returning or raising: it never ends with the
\* InternalRetryLogicError raised after the loop.
C15_FallbackUnreachable ==
    Proper(calls[1]) => calls[1].err.class # "InternalRetryLogicError"

\* C16: sleeps happen only between two consecutive requests: before each
\* request every earlier attempt has been followed by exactly one sleep,
\* no sleep follows the attempt the invocation ends on, and the sleep after
\* attempt i lasts base_delay * 2^i.
C16_SleepBetweenRequests ==
    LET ex == calls[1]
    IN  Proper(ex)
        => /\ ex.pc \in {"request", "sleeping"} => Len(ex.sleeps) = ex.nreq
           /\ Finished(ex) /\ ex.nreq > 0 => Len(ex.sleeps) = ex.nreq - 1
           /\ ex.sleeps = ExpectedSleeps(ex.base_delay, Len(ex.sleeps))

=============================================================================
